---- MODULE Spec2Model ----
(***************************************************************************)
(* The game engine of spotify-music-roulette (src/src/lib/game/engine.ts)  *)
(* and the HTTP routes that drive it, as a state machine over the one      *)
(* persisted GameState record.                                             *)
(*                                                                         *)
(* Every engine function is a pure operator  f(g, args, t)  from the game  *)
(* it read from the store and the wall clock to                            *)
(*     [game |-> the record it leaves, wrote |-> whether setGameInRedis    *)
(*      ran, res |-> what it returns].                                     *)
(* The sequential specifications apply one whole function per step; the    *)
(* concurrent specification splits every function into its store read and  *)
(* its store write, as the awaits in the source do.                        *)
(*                                                                         *)
(* Display-only fields (names, images, playlists, isReady, createdAt,      *)
(* timeRange, track metadata) carry no behaviour and are left out.         *)
(***************************************************************************)
EXTENDS Integers, Sequences, FiniteSets, TLC

VARIABLES
    game,   \* the GameState persisted under GameCode (redis key game:<code>)
    now,    \* the wall clock, Date.now(), in milliseconds
    reqs    \* the HTTP requests in flight (concurrent specification only)

vars == <<game, now, reqs>>

----------------------------------------------------------------------------
(* Program constants *)

ROUND_DURATION == 30
BASE_POINTS == 100
POINTS_PER_SECOND_PENALTY == 2
MIN_POINTS == BASE_POINTS - (ROUND_DURATION * POINTS_PER_SECOND_PENALTY)

\* A Round without startedAt (startedAt?: number): the field is undefined,
\* which `startedAt || Date.now()` treats like 0.
NoTime == 0

----------------------------------------------------------------------------
(* Bounds of the model *)

\* The round count a game is created with (RoundCount in the source).
MaxRounds == 2
\* endRound is not taken once some score exceeds this (repeated scoring of
\* one round would otherwise grow the scores without bound).
MaxScore == 100
\* Requests the concurrent specification lets overlap.
MaxReqs == 2

GameCode == "ABCD"
OtherCode == "WXYZ"
Codes == {GameCode, OtherCode}

\* The instants the clock takes.  Round play: the start and 4 s later.
Instants == {1000, 5000}
\* Scoring: a round started at the first instant sees guesses 0 ms, 999 ms,
\* 4 s, 29 s and 31 s in, the cases the scoring rule tells apart.
ScoreInstants == {1000, 1999, 5000, 30000, 32000}

----------------------------------------------------------------------------
(* Helpers *)

Max(a, b) == IF a >= b THEN a ELSE b
Min(a, b) == IF a <= b THEN a ELSE b

Range(s) == {s[i] : i \in DOMAIN s}

\* obj[k] || d  on a Record<string, number>
GetOr(f, k, d) == IF k \in DOMAIN f /\ f[k] # 0 THEN f[k] ELSE d

\* obj[k] = v  on a Record<string, ...>
Put(f, k, v) == [x \in DOMAIN f \cup {k} |-> IF x = k THEN v ELSE f[x]]

EmptyMap == [x \in {} |-> 0]

\* players.findIndex(pred): 0 when there is none (the source's -1)
RECURSIVE FindIndexFrom(_, _, _)
FindIndexFrom(ps, ids, i) ==
    IF i > Len(ps) THEN 0
    ELSE IF ps[i] \in ids THEN i
    ELSE FindIndexFrom(ps, ids, i + 1)

----------------------------------------------------------------------------
(* The store *)

\* redis.get of a key that holds nothing: null
NoGame ==
    [status |-> "missing", hostId |-> "", players |-> <<>>, rounds |-> <<>>,
     currentRound |-> 0, totalRounds |-> 0, scores |-> EmptyMap,
     heartTotals |-> EmptyMap, songPool |-> <<>>]

getGameFromRedis(store, code) == IF code = GameCode THEN store ELSE NoGame

\* game.rounds[game.currentRound]: undefined past the end of the array
HasCurrentRound(g) == g.currentRound + 1 \in DOMAIN g.rounds
CurrentRound(g) == g.rounds[g.currentRound + 1]

Rejected(g) == [game |-> g, wrote |-> FALSE, res |-> [ok |-> FALSE]]

----------------------------------------------------------------------------
(* Scoring *)

\* Mutant: the penalty taken per millisecond, the floor to seconds left out.
calculateTimeBasedScore_NoFloor(roundStartedAt, guessTimestamp) ==
    LET elapsedMs == guessTimestamp - roundStartedAt
        score == BASE_POINTS - ((elapsedMs * POINTS_PER_SECOND_PENALTY) \div 1000)
    IN  Max(MIN_POINTS, score)

calculateTimeBasedScore(roundStartedAt, guessTimestamp) ==
    LET elapsedMs == guessTimestamp - roundStartedAt
        elapsedSeconds == elapsedMs \div 1000
        score == BASE_POINTS - (elapsedSeconds * POINTS_PER_SECOND_PENALTY)
    IN  Max(MIN_POINTS, score)

----------------------------------------------------------------------------
(* Song pool builder *)

Swap(s, i, k) ==
    [x \in DOMAIN s |-> IF x = i THEN s[k] ELSE IF x = k THEN s[i] ELSE s[x]]

\* The inner j-loop of spreadSongsByOwner: how many of the maxConsecutive
\* songs right before position i have the owner of songs[i], counted
\* backwards up to the first that has not.
RECURSIVE SameOwnerBefore(_, _, _, _)
SameOwnerBefore(songs, i, j, maxConsecutive) ==
    IF j > maxConsecutive THEN 0
    ELSE IF songs[i - j].ownerId = songs[i].ownerId
         THEN 1 + SameOwnerBefore(songs, i, j + 1, maxConsecutive)
         ELSE 0

\* The inner k-loop: the first later position with another owner, 0 if none.
RECURSIVE FirstOtherOwner(_, _, _)
FirstOtherOwner(songs, i, k) ==
    IF k > Len(songs) THEN 0
    ELSE IF songs[k].ownerId # songs[i].ownerId THEN k
    ELSE FirstOtherOwner(songs, i, k + 1)

RECURSIVE SpreadFrom(_, _, _)
SpreadFrom(songs, i, maxConsecutive) ==
    IF i > Len(songs) THEN songs
    ELSE LET sameOwnerCount == 1 + SameOwnerBefore(songs, i, 1, maxConsecutive)
             k == FirstOtherOwner(songs, i, i + 1)
             swapped == IF sameOwnerCount > maxConsecutive /\ k # 0
                        THEN Swap(songs, i, k) ELSE songs
         IN  SpreadFrom(swapped, i + 1, maxConsecutive)

spreadSongsByOwner(songs, maxConsecutive) ==
    IF Len(songs) <= maxConsecutive THEN songs
    ELSE SpreadFrom(songs, maxConsecutive + 1, maxConsecutive)

\* shuffleArray: Fisher-Yates over Math.random() can return any permutation.
shuffleArray(s) ==
    {[i \in DOMAIN s |-> s[f[i]]] :
        f \in {h \in [DOMAIN s -> DOMAIN s] : \A a, b \in DOMAIN s : h[a] = h[b] => a = b}}

RECURSIVE MaxTracksFrom(_, _)
MaxTracksFrom(players, i) ==
    IF i > Len(players) THEN 0
    ELSE Max(Len(players[i].topTracks), MaxTracksFrom(players, i + 1))

\* Mutant: the tracks are claimed player by player instead of rank by rank,
\* so an earlier player takes a shared track whatever its rank.
RECURSIVE ClaimFrom_ByPlayer(_, _, _)
ClaimFrom_ByPlayer(players, k, st) ==
    LET m == MaxTracksFrom(players, 1)
        who == IF m = 0 THEN 1 ELSE (k \div m) + 1
        rank == IF m = 0 THEN 1 ELSE (k % m) + 1
    IN  IF k >= m * Len(players) THEN st.byOwner
        ELSE IF rank > Len(players[who].topTracks)
                \/ players[who].topTracks[rank] \in st.used
             THEN ClaimFrom_ByPlayer(players, k + 1, st)
             ELSE ClaimFrom_ByPlayer(players, k + 1,
                    [used |-> st.used \cup {players[who].topTracks[rank]},
                     byOwner |-> [st.byOwner EXCEPT ![who] =
                        Append(@, [track |-> players[who].topTracks[rank],
                                   ownerId |-> players[who].id])]])

\* Step 1 of buildSongPool: rank by rank, player by player in roster order,
\* a track not yet used is claimed by the player that holds it.  k counts the
\* (rank, player) pairs already visited; st = [used, byOwner].
RECURSIVE ClaimFrom(_, _, _)
ClaimFrom(players, k, st) ==
    LET n == Len(players)
        rank == (k \div n) + 1
        who == (k % n) + 1
    IN  IF k >= MaxTracksFrom(players, 1) * n THEN st.byOwner
        ELSE IF rank > Len(players[who].topTracks)
                \/ players[who].topTracks[rank] \in st.used
             THEN ClaimFrom(players, k + 1, st)
             ELSE ClaimFrom(players, k + 1,
                    [used |-> st.used \cup {players[who].topTracks[rank]},
                     byOwner |-> [st.byOwner EXCEPT ![who] =
                        Append(@, [track |-> players[who].topTracks[rank],
                                   ownerId |-> players[who].id])]])

songsByOwner(players) ==
    ClaimFrom(players, 0, [used |-> {}, byOwner |-> [i \in DOMAIN players |-> <<>>]])

\* Step 2: baseSongsPerPlayer, plus one while the remainder lasts.
targetCount(i, totalRounds, numPlayers) ==
    (totalRounds \div numPlayers) + (IF i <= totalRounds % numPlayers THEN 1 ELSE 0)

\* Every way the per-player shuffles can come out.
RECURSIVE ShuffledByOwner(_, _)
ShuffledByOwner(byOwner, i) ==
    IF i > Len(byOwner) THEN {<<>>}
    ELSE {<<p>> \o rest : p \in shuffleArray(byOwner[i]),
                          rest \in ShuffledByOwner(byOwner, i + 1)}

\* Mutant: the first pass takes every song a player owns, target or not.
RECURSIVE FirstPass_NoTarget(_, _, _, _)
FirstPass_NoTarget(byOwner, i, totalRounds, acc) ==
    IF i > Len(byOwner) THEN acc
    ELSE FirstPass_NoTarget(byOwner, i + 1, totalRounds,
            [pool |-> acc.pool \o byOwner[i], left |-> Append(acc.left, <<>>)])

\* First pass: each player gives min(target, what they own) songs.
RECURSIVE FirstPass(_, _, _, _)
FirstPass(byOwner, i, totalRounds, acc) ==
    IF i > Len(byOwner) THEN acc
    ELSE LET songsToTake == Min(targetCount(i, totalRounds, Len(byOwner)), Len(byOwner[i]))
         IN  FirstPass(byOwner, i + 1, totalRounds,
                [pool |-> acc.pool \o SubSeq(byOwner[i], 1, songsToTake),
                 left |-> Append(acc.left, SubSeq(byOwner[i], songsToTake + 1, Len(byOwner[i])))])

\* One for-loop of the second pass over the players.
RECURSIVE SecondPassRound(_, _)
SecondPassRound(st, i) ==
    IF i > Len(st.left) \/ Len(st.pool) >= st.totalRounds THEN st
    ELSE IF Len(st.left[i]) > 0
         THEN SecondPassRound(
                [st EXCEPT !.pool = Append(@, st.left[i][1]),
                           !.left[i] = Tail(@),
                           !.addedAny = TRUE], i + 1)
         ELSE SecondPassRound(st, i + 1)

\* Mutant: the second pass is left out; a pool short after the first pass
\* stays short.
SecondPass_NoFill(st) == st.pool

\* The while-loop of the second pass.
RECURSIVE SecondPass(_)
SecondPass(st) ==
    IF Len(st.pool) >= st.totalRounds THEN st.pool
    ELSE LET after == SecondPassRound([st EXCEPT !.addedAny = FALSE], 1)
         IN  IF after.addedAny THEN SecondPass(after) ELSE after.pool

balancedPool(shuffled, totalRounds) ==
    LET first == FirstPass(shuffled, 1, totalRounds, [pool |-> <<>>, left |-> <<>>])
    IN  SecondPass([pool |-> first.pool, left |-> first.left,
                    totalRounds |-> totalRounds, addedAny |-> FALSE])

\* The pools buildSongPool can return, over every outcome of its shuffles.
buildSongPool(players, totalRounds) ==
    IF Len(players) = 0 THEN {<<>>}
    ELSE {spreadSongsByOwner(final, 2) :
            final \in UNION {shuffleArray(balancedPool(sh, totalRounds)) :
                               sh \in ShuffledByOwner(songsByOwner(players), 1)}}

----------------------------------------------------------------------------
(* Game lifecycle *)

createGame(host, totalRounds) ==
    [status |-> "lobby", hostId |-> host.id, players |-> <<host>>,
     rounds |-> <<>>, currentRound |-> 0, totalRounds |-> totalRounds,
     scores |-> Put(EmptyMap, host.id, 0), heartTotals |-> EmptyMap,
     songPool |-> <<>>]

\* Mutant: the roster is not searched for the external id; every join is
\* appended.
addPlayerToGame_AlwaysPush(g, player) ==
    IF g.status = "missing" \/ g.status # "lobby" THEN Rejected(g)
    ELSE [game |-> [g EXCEPT !.players = Append(@, player),
                             !.scores = Put(@, player.id, 0),
                             !.heartTotals = Put(@, player.id, 0)],
          wrote |-> TRUE, res |-> [ok |-> TRUE]]

\* Mutant: a join is taken in every status of an existing game.
addPlayerToGame_AnyStatus(g, player) ==
    IF g.status = "missing" THEN Rejected(g)
    ELSE LET existing == FindIndexFrom([i \in DOMAIN g.players |-> g.players[i].spotifyId],
                                       {player.spotifyId}, 1)
         IN  IF existing # 0
             THEN [game |-> [g EXCEPT !.players[existing].isConnected = TRUE,
                                      !.players[existing].topTracks = player.topTracks],
                   wrote |-> TRUE, res |-> [ok |-> TRUE]]
             ELSE [game |-> [g EXCEPT !.players = Append(@, player),
                                      !.scores = Put(@, player.id, 0),
                                      !.heartTotals = Put(@, player.id, 0)],
                   wrote |-> TRUE, res |-> [ok |-> TRUE]]

addPlayerToGame(g, player) ==
    IF g.status = "missing" \/ g.status # "lobby" THEN Rejected(g)
    ELSE LET existing == FindIndexFrom([i \in DOMAIN g.players |-> g.players[i].spotifyId],
                                       {player.spotifyId}, 1)
         IN  IF existing # 0
             THEN LET g2 == [g EXCEPT !.players[existing].isConnected = TRUE,
                                      !.players[existing].topTracks = player.topTracks]
                  IN  [game |-> g2, wrote |-> TRUE, res |-> [ok |-> TRUE]]
             ELSE LET g2 == [g EXCEPT !.players = Append(@, player),
                                      !.scores = Put(@, player.id, 0),
                                      !.heartTotals = Put(@, player.id, 0)]
                  IN  [game |-> g2, wrote |-> TRUE, res |-> [ok |-> TRUE]]

\* Mutant: the player is taken out of the roster together with the score.
removePlayerFromGame_Delete(g, playerId) ==
    IF g.status = "missing" THEN Rejected(g)
    ELSE LET playerIndex == FindIndexFrom([i \in DOMAIN g.players |-> g.players[i].id],
                                          {playerId}, 1)
         IN  IF playerIndex = 0
             THEN [game |-> g, wrote |-> FALSE, res |-> [ok |-> TRUE]]
             ELSE [game |-> [g EXCEPT
                                !.players = SubSeq(@, 1, playerIndex - 1)
                                            \o SubSeq(@, playerIndex + 1, Len(@)),
                                !.scores = [q \in DOMAIN @ \ {playerId} |-> @[q]]],
                   wrote |-> TRUE, res |-> [ok |-> TRUE]]

removePlayerFromGame(g, playerId) ==
    IF g.status = "missing" THEN Rejected(g)
    ELSE LET playerIndex == FindIndexFrom([i \in DOMAIN g.players |-> g.players[i].id],
                                          {playerId}, 1)
         IN  IF playerIndex = 0
             THEN [game |-> g, wrote |-> FALSE, res |-> [ok |-> TRUE]]
             ELSE [game |-> [g EXCEPT !.players[playerIndex].isConnected = FALSE],
                   wrote |-> TRUE, res |-> [ok |-> TRUE]]

NewRound(number, song) ==
    [number |-> number, song |-> song, guesses |-> EmptyMap,
     guessTimestamps |-> EmptyMap, hearts |-> <<>>, status |-> "waiting",
     startedAt |-> NoTime]

RECURSIVE ZeroHearts(_, _, _)
ZeroHearts(players, i, totals) ==
    IF i > Len(players) THEN totals
    ELSE ZeroHearts(players, i + 1, Put(totals, players[i].id, 0))

\* Mutant: the check for an empty pool is left out; songPool[0] of an empty
\* pool is undefined.
startGame_NoEmptyCheck(g, songPool) ==
    IF g.status = "missing" \/ g.status # "lobby" THEN Rejected(g)
    ELSE [game |-> [g EXCEPT !.songPool = songPool,
                             !.totalRounds = Min(g.totalRounds, Len(songPool)),
                             !.status = "playing",
                             !.currentRound = 0,
                             !.heartTotals = ZeroHearts(g.players, 1, @),
                             !.rounds = Append(@, NewRound(1,
                                 IF Len(songPool) = 0
                                 THEN [track |-> "", ownerId |-> ""]
                                 ELSE songPool[1]))],
          wrote |-> TRUE, res |-> [ok |-> TRUE]]

\* Mutant: the heart totals are not seeded; the host, whom createGame gives
\* no entry, starts the game without one.
startGame_NoHeartInit(g, songPool) ==
    IF g.status = "missing" \/ g.status # "lobby" THEN Rejected(g)
    ELSE LET totalRounds == Min(g.totalRounds, Len(songPool))
         IN  IF totalRounds = 0 THEN Rejected(g)
             ELSE [game |-> [g EXCEPT !.songPool = songPool,
                                      !.totalRounds = totalRounds,
                                      !.status = "playing",
                                      !.currentRound = 0,
                                      !.rounds = Append(@, NewRound(1, songPool[1]))],
                   wrote |-> TRUE, res |-> [ok |-> TRUE]]

\* Mutant: a game is started again whatever its status.
startGame_AnyStatus(g, songPool) ==
    IF g.status = "missing" THEN Rejected(g)
    ELSE LET totalRounds == Min(g.totalRounds, Len(songPool))
         IN  IF totalRounds = 0 THEN Rejected(g)
             ELSE [game |-> [g EXCEPT !.songPool = songPool,
                                      !.totalRounds = totalRounds,
                                      !.status = "playing",
                                      !.currentRound = 0,
                                      !.heartTotals = ZeroHearts(g.players, 1, @),
                                      !.rounds = Append(@, NewRound(1, songPool[1]))],
                   wrote |-> TRUE, res |-> [ok |-> TRUE]]

\* songPool is what buildSongPool(game.players, game.totalRounds) returned.
startGame(g, songPool) ==
    IF g.status = "missing" \/ g.status # "lobby" THEN Rejected(g)
    ELSE LET requestedRounds == g.totalRounds
             totalRounds == Min(requestedRounds, Len(songPool))
         IN  IF totalRounds = 0 THEN Rejected(g)
             ELSE [game |-> [g EXCEPT !.songPool = songPool,
                                      !.totalRounds = totalRounds,
                                      !.status = "playing",
                                      !.currentRound = 0,
                                      !.heartTotals = ZeroHearts(g.players, 1, @),
                                      !.rounds = Append(@, NewRound(1, songPool[1]))],
                   wrote |-> TRUE, res |-> [ok |-> TRUE]]

----------------------------------------------------------------------------
(* Round and scoring engine *)

startRound(g, t) ==
    IF g.status = "missing" \/ g.status # "playing" THEN Rejected(g)
    ELSE IF ~HasCurrentRound(g) THEN Rejected(g)
    ELSE [game |-> [g EXCEPT !.rounds[g.currentRound + 1].status = "playing",
                             !.rounds[g.currentRound + 1].startedAt = t],
          wrote |-> TRUE, res |-> [ok |-> TRUE]]

\* connectedPlayers.every((p) => currentRound.guesses[p.id]): the entry is
\* there and is not the empty string.
\* Mutant: every player of the roster is waited for, connected or not.
allConnectedGuessed_Everyone(players, guesses) ==
    \A i \in DOMAIN players :
        players[i].id \in DOMAIN guesses /\ guesses[players[i].id] # ""

allConnectedGuessed(players, guesses) ==
    \A i \in DOMAIN players :
        players[i].isConnected =>
            (players[i].id \in DOMAIN guesses /\ guesses[players[i].id] # "")

\* Mutant: the round's status is not looked at; a guess is taken for a
\* waiting or complete round too.
submitGuess_AnyRoundStatus(g, playerId, guessedPlayerId, t) ==
    IF g.status = "missing" \/ g.status # "playing" THEN Rejected(g)
    ELSE IF ~HasCurrentRound(g) THEN Rejected(g)
    ELSE LET cur == g.currentRound + 1
             g2 == [g EXCEPT !.rounds[cur].guesses = Put(@, playerId, guessedPlayerId),
                             !.rounds[cur].guessTimestamps = Put(@, playerId, t)]
         IN  [game |-> g2, wrote |-> TRUE,
              res |-> [ok |-> TRUE,
                       allGuessed |-> allConnectedGuessed(g2.players, g2.rounds[cur].guesses)]]

submitGuess(g, playerId, guessedPlayerId, t) ==
    IF g.status = "missing" \/ g.status # "playing" THEN Rejected(g)
    ELSE IF ~HasCurrentRound(g) \/ CurrentRound(g).status # "playing" THEN Rejected(g)
    ELSE LET cur == g.currentRound + 1
             g2 == [g EXCEPT !.rounds[cur].guesses = Put(@, playerId, guessedPlayerId),
                             !.rounds[cur].guessTimestamps = Put(@, playerId, t)]
         IN  [game |-> g2, wrote |-> TRUE,
              res |-> [ok |-> TRUE,
                       allGuessed |-> allConnectedGuessed(g2.players, g2.rounds[cur].guesses)]]

\* The points endRound gives one guesser of the round.
guessPoints(round, playerId, t) ==
    LET roundStartedAt == IF round.startedAt = NoTime THEN t ELSE round.startedAt
        guessTimestamp == GetOr(round.guessTimestamps, playerId, t)
    IN  IF round.guesses[playerId] = round.song.ownerId
        THEN calculateTimeBasedScore(roundStartedAt, guessTimestamp)
        ELSE 0

endRound(g, t) ==
    IF g.status = "missing" \/ g.status # "playing" THEN Rejected(g)
    ELSE IF ~HasCurrentRound(g) THEN Rejected(g)
    ELSE LET cur == g.currentRound + 1
             round == g.rounds[cur]
             guessers == DOMAIN round.guesses
             correct == {p \in guessers : round.guesses[p] = round.song.ownerId}
             roundScores ==
                [p \in guessers \cup {g.players[i].id : i \in DOMAIN g.players} |->
                    IF p \in guessers THEN guessPoints(round, p, t) ELSE 0]
             scores ==
                [p \in DOMAIN g.scores \cup correct |->
                    IF p \in correct
                    THEN GetOr(g.scores, p, 0) + guessPoints(round, p, t)
                    ELSE g.scores[p]]
         IN  [game |-> [g EXCEPT !.rounds[cur].status = "complete",
                                 !.scores = scores],
              wrote |-> TRUE,
              res |-> [ok |-> TRUE, roundScores |-> roundScores]]

\* Mutant: past the last round the status is left playing.
nextRound_NoFinish(g) ==
    IF g.status = "missing" \/ g.status # "playing" THEN Rejected(g)
    ELSE LET currentRound == g.currentRound + 1
         IN  IF currentRound >= g.totalRounds
             THEN [game |-> [g EXCEPT !.currentRound = currentRound],
                   wrote |-> TRUE, res |-> [ok |-> FALSE]]
             ELSE [game |-> [g EXCEPT !.currentRound = currentRound,
                                      !.rounds = Append(@,
                                          NewRound(currentRound + 1,
                                                   g.songPool[currentRound + 1]))],
                   wrote |-> TRUE, res |-> [ok |-> TRUE]]

\* Mutant: the new round is given the first song of the pool again.
nextRound_FirstSongAgain(g) ==
    IF g.status = "missing" \/ g.status # "playing" THEN Rejected(g)
    ELSE LET currentRound == g.currentRound + 1
         IN  IF currentRound >= g.totalRounds
             THEN [game |-> [g EXCEPT !.currentRound = currentRound,
                                      !.status = "finished"],
                   wrote |-> TRUE, res |-> [ok |-> FALSE]]
             ELSE [game |-> [g EXCEPT !.currentRound = currentRound,
                                      !.rounds = Append(@,
                                          NewRound(currentRound + 1, g.songPool[1]))],
                   wrote |-> TRUE, res |-> [ok |-> TRUE]]

nextRound(g) ==
    IF g.status = "missing" \/ g.status # "playing" THEN Rejected(g)
    ELSE LET currentRound == g.currentRound + 1
         IN  IF currentRound >= g.totalRounds
             THEN [game |-> [g EXCEPT !.currentRound = currentRound,
                                      !.status = "finished"],
                   wrote |-> TRUE, res |-> [ok |-> FALSE]]
             ELSE [game |-> [g EXCEPT !.currentRound = currentRound,
                                      !.rounds = Append(@,
                                          NewRound(currentRound + 1,
                                                   g.songPool[currentRound + 1]))],
                   wrote |-> TRUE, res |-> [ok |-> TRUE]]

HeartRejected(g, count, error) ==
    [game |-> g, wrote |-> FALSE,
     res |-> [ok |-> FALSE, visibleHeartCount |-> count, isOwnSong |-> FALSE,
              error |-> error]]

\* Mutant: the owner's heart on the own song is counted like any other.
submitHeart_CountOwn(g, playerId) ==
    IF g.status = "missing" \/ g.status # "playing"
    THEN HeartRejected(g, 0, "Game not found or not playing")
    ELSE IF ~HasCurrentRound(g) \/ CurrentRound(g).status # "playing"
    THEN HeartRejected(g, 0, "Round not active")
    ELSE IF FindIndexFrom([i \in DOMAIN g.players |-> g.players[i].id], {playerId}, 1) = 0
    THEN HeartRejected(g, 0, "Player not in game")
    ELSE IF playerId \in Range(CurrentRound(g).hearts)
    THEN HeartRejected(g, Len(CurrentRound(g).hearts), "Already hearted this round")
    ELSE LET cur == g.currentRound + 1
             songOwnerId == g.rounds[cur].song.ownerId
             g2 == [g EXCEPT !.rounds[cur].hearts = Append(@, playerId),
                             !.heartTotals = Put(@, songOwnerId,
                                                 GetOr(@, songOwnerId, 0) + 1)]
         IN  [game |-> g2, wrote |-> TRUE,
              res |-> [ok |-> TRUE,
                       visibleHeartCount |-> Len(g2.rounds[cur].hearts),
                       isOwnSong |-> playerId = songOwnerId, error |-> ""]]

\* Mutant: a player who has hearted the round already is not turned away.
submitHeart_NoOnceCheck(g, playerId) ==
    IF g.status = "missing" \/ g.status # "playing"
    THEN HeartRejected(g, 0, "Game not found or not playing")
    ELSE IF ~HasCurrentRound(g) \/ CurrentRound(g).status # "playing"
    THEN HeartRejected(g, 0, "Round not active")
    ELSE IF FindIndexFrom([i \in DOMAIN g.players |-> g.players[i].id], {playerId}, 1) = 0
    THEN HeartRejected(g, 0, "Player not in game")
    ELSE LET cur == g.currentRound + 1
             songOwnerId == g.rounds[cur].song.ownerId
         IN  IF playerId = songOwnerId
             THEN [game |-> g, wrote |-> FALSE,
                   res |-> [ok |-> TRUE, visibleHeartCount |-> Len(g.rounds[cur].hearts),
                            isOwnSong |-> TRUE, error |-> ""]]
             ELSE LET g2 == [g EXCEPT !.rounds[cur].hearts = Append(@, playerId),
                                      !.heartTotals = Put(@, songOwnerId,
                                                          GetOr(@, songOwnerId, 0) + 1)]
                  IN  [game |-> g2, wrote |-> TRUE,
                       res |-> [ok |-> TRUE,
                                visibleHeartCount |-> Len(g2.rounds[cur].hearts),
                                isOwnSong |-> FALSE, error |-> ""]]

\* Mutant: the heart is recorded in the round but the owner's total is left
\* as it was.
submitHeart_NoTotal(g, playerId) ==
    IF g.status = "missing" \/ g.status # "playing"
    THEN HeartRejected(g, 0, "Game not found or not playing")
    ELSE IF ~HasCurrentRound(g) \/ CurrentRound(g).status # "playing"
    THEN HeartRejected(g, 0, "Round not active")
    ELSE IF FindIndexFrom([i \in DOMAIN g.players |-> g.players[i].id], {playerId}, 1) = 0
    THEN HeartRejected(g, 0, "Player not in game")
    ELSE IF playerId \in Range(CurrentRound(g).hearts)
    THEN HeartRejected(g, Len(CurrentRound(g).hearts), "Already hearted this round")
    ELSE LET cur == g.currentRound + 1
             songOwnerId == g.rounds[cur].song.ownerId
         IN  IF playerId = songOwnerId
             THEN [game |-> g, wrote |-> FALSE,
                   res |-> [ok |-> TRUE, visibleHeartCount |-> Len(g.rounds[cur].hearts),
                            isOwnSong |-> TRUE, error |-> ""]]
             ELSE LET g2 == [g EXCEPT !.rounds[cur].hearts = Append(@, playerId)]
                  IN  [game |-> g2, wrote |-> TRUE,
                       res |-> [ok |-> TRUE,
                                visibleHeartCount |-> Len(g2.rounds[cur].hearts),
                                isOwnSong |-> FALSE, error |-> ""]]

\* Mutant: the roster is not searched for the player; anybody's heart is
\* taken.
submitHeart_NoRosterCheck(g, playerId) ==
    IF g.status = "missing" \/ g.status # "playing"
    THEN HeartRejected(g, 0, "Game not found or not playing")
    ELSE IF ~HasCurrentRound(g) \/ CurrentRound(g).status # "playing"
    THEN HeartRejected(g, 0, "Round not active")
    ELSE IF playerId \in Range(CurrentRound(g).hearts)
    THEN HeartRejected(g, Len(CurrentRound(g).hearts), "Already hearted this round")
    ELSE LET cur == g.currentRound + 1
             songOwnerId == g.rounds[cur].song.ownerId
         IN  IF playerId = songOwnerId
             THEN [game |-> g, wrote |-> FALSE,
                   res |-> [ok |-> TRUE, visibleHeartCount |-> Len(g.rounds[cur].hearts),
                            isOwnSong |-> TRUE, error |-> ""]]
             ELSE LET g2 == [g EXCEPT !.rounds[cur].hearts = Append(@, playerId),
                                      !.heartTotals = Put(@, songOwnerId,
                                                          GetOr(@, songOwnerId, 0) + 1)]
                  IN  [game |-> g2, wrote |-> TRUE,
                       res |-> [ok |-> TRUE,
                                visibleHeartCount |-> Len(g2.rounds[cur].hearts),
                                isOwnSong |-> FALSE, error |-> ""]]

\* Mutant: the heart is credited to the player who sent it.
submitHeart_CreditSender(g, playerId) ==
    IF g.status = "missing" \/ g.status # "playing"
    THEN HeartRejected(g, 0, "Game not found or not playing")
    ELSE IF ~HasCurrentRound(g) \/ CurrentRound(g).status # "playing"
    THEN HeartRejected(g, 0, "Round not active")
    ELSE IF FindIndexFrom([i \in DOMAIN g.players |-> g.players[i].id], {playerId}, 1) = 0
    THEN HeartRejected(g, 0, "Player not in game")
    ELSE IF playerId \in Range(CurrentRound(g).hearts)
    THEN HeartRejected(g, Len(CurrentRound(g).hearts), "Already hearted this round")
    ELSE LET cur == g.currentRound + 1
             songOwnerId == g.rounds[cur].song.ownerId
         IN  IF playerId = songOwnerId
             THEN [game |-> g, wrote |-> FALSE,
                   res |-> [ok |-> TRUE, visibleHeartCount |-> Len(g.rounds[cur].hearts),
                            isOwnSong |-> TRUE, error |-> ""]]
             ELSE LET g2 == [g EXCEPT !.rounds[cur].hearts = Append(@, playerId),
                                      !.heartTotals = Put(@, playerId,
                                                          GetOr(@, playerId, 0) + 1)]
                  IN  [game |-> g2, wrote |-> TRUE,
                       res |-> [ok |-> TRUE,
                                visibleHeartCount |-> Len(g2.rounds[cur].hearts),
                                isOwnSong |-> FALSE, error |-> ""]]

submitHeart(g, playerId) ==
    IF g.status = "missing" \/ g.status # "playing"
    THEN HeartRejected(g, 0, "Game not found or not playing")
    ELSE IF ~HasCurrentRound(g) \/ CurrentRound(g).status # "playing"
    THEN HeartRejected(g, 0, "Round not active")
    ELSE IF FindIndexFrom([i \in DOMAIN g.players |-> g.players[i].id], {playerId}, 1) = 0
    THEN HeartRejected(g, 0, "Player not in game")
    ELSE IF playerId \in Range(CurrentRound(g).hearts)
    THEN HeartRejected(g, Len(CurrentRound(g).hearts), "Already hearted this round")
    ELSE LET cur == g.currentRound + 1
             songOwnerId == g.rounds[cur].song.ownerId
         IN  IF playerId = songOwnerId
             THEN [game |-> g, wrote |-> FALSE,
                   res |-> [ok |-> TRUE, visibleHeartCount |-> Len(g.rounds[cur].hearts),
                            isOwnSong |-> TRUE, error |-> ""]]
             ELSE LET g2 == [g EXCEPT !.rounds[cur].hearts = Append(@, playerId),
                                      !.heartTotals = Put(@, songOwnerId,
                                                          GetOr(@, songOwnerId, 0) + 1)]
                  IN  [game |-> g2, wrote |-> TRUE,
                       res |-> [ok |-> TRUE,
                                visibleHeartCount |-> Len(g2.rounds[cur].hearts),
                                isOwnSong |-> FALSE, error |-> ""]]

----------------------------------------------------------------------------
(* Sequential steps: one whole engine call per step, its store read and    *)
(* its store write with nothing between                                    *)

Player(id, spotifyId, topTracks) ==
    [id |-> id, spotifyId |-> spotifyId, isConnected |-> TRUE, topTracks |-> topTracks]

PlayerIds == {"p1", "p2"}

\* The store after a call: changed only when the call reached setGameInRedis.
Written(r) == IF r.wrote THEN r.game ELSE game

Tick(instants) ==
    /\ \E t \in instants : t > now /\ now' = t
    /\ UNCHANGED <<game, reqs>>

StartRoundOp(code) ==
    /\ game' = Written(startRound(getGameFromRedis(game, code), now))
    /\ UNCHANGED <<now, reqs>>

SubmitGuessOp(code, playerId, guessedPlayerId) ==
    /\ game' = Written(submitGuess(getGameFromRedis(game, code), playerId,
                                   guessedPlayerId, now))
    /\ UNCHANGED <<now, reqs>>

SubmitHeartOp(code, playerId) ==
    /\ game' = Written(submitHeart(getGameFromRedis(game, code), playerId))
    /\ UNCHANGED <<now, reqs>>

EndRoundOp(code) ==
    /\ \A p \in DOMAIN game.scores : game.scores[p] <= MaxScore
    /\ game' = Written(endRound(getGameFromRedis(game, code), now))
    /\ UNCHANGED <<now, reqs>>

NextRoundOp(code) ==
    /\ game' = Written(nextRound(getGameFromRedis(game, code)))
    /\ UNCHANGED <<now, reqs>>

RemovePlayerOp(code, playerId) ==
    /\ game' = Written(removePlayerFromGame(getGameFromRedis(game, code), playerId))
    /\ UNCHANGED <<now, reqs>>

AddPlayerOp(code, player) ==
    /\ game' = Written(addPlayerToGame(getGameFromRedis(game, code), player))
    /\ UNCHANGED <<now, reqs>>

StartGameOp(code) ==
    /\ \E songPool \in buildSongPool(getGameFromRedis(game, code).players,
                                     getGameFromRedis(game, code).totalRounds) :
            game' = Written(startGame(getGameFromRedis(game, code), songPool))
    /\ UNCHANGED <<now, reqs>>

\* The games startGame can leave for a lobby.
StartedGames(lobby) ==
    {startGame(lobby, pool).game : pool \in buildSongPool(lobby.players, lobby.totalRounds)}

----------------------------------------------------------------------------
(* Spec: play of one round in full.  The host owns the only track, so the  *)
(* game has one round whatever round count it was created with.            *)

PlayLobby ==
    addPlayerToGame(createGame(Player("p1", "s1", <<"a">>), MaxRounds),
                    Player("p2", "s2", <<>>)).game

InitPlay ==
    /\ game \in StartedGames(PlayLobby)
    /\ now = 1000
    /\ reqs = <<>>

NextPlay ==
    \/ Tick(Instants)
    \/ \E code \in Codes : StartRoundOp(code)
    \/ \E code \in Codes, p \in PlayerIds, q \in PlayerIds : SubmitGuessOp(code, p, q)
    \/ \E code \in Codes, p \in PlayerIds : SubmitHeartOp(code, p)
    \/ \E code \in Codes : EndRoundOp(code)
    \/ \E code \in Codes : NextRoundOp(code)
    \/ \E code \in Codes, p \in PlayerIds : RemovePlayerOp(code, p)

Spec == InitPlay /\ [][NextPlay]_vars

----------------------------------------------------------------------------
(* SpecScore: the scoring of one guesser's guess over the finer clock.     *)

NextScore ==
    \/ Tick(ScoreInstants)
    \/ StartRoundOp(GameCode)
    \/ \E q \in PlayerIds : SubmitGuessOp(GameCode, "p2", q)
    \/ EndRoundOp(GameCode)
    \/ NextRoundOp(GameCode)

SpecScore == InitPlay /\ [][NextScore]_vars

----------------------------------------------------------------------------
(* SpecRounds: the progress of a game over several rounds, one guesser,    *)
(* the clock standing still.                                               *)

RoundsLobby ==
    addPlayerToGame(createGame(Player("p1", "s1", <<"a", "b">>), MaxRounds),
                    Player("p2", "s2", <<"c">>)).game

InitRounds ==
    /\ game \in StartedGames(RoundsLobby)
    /\ now = 1000
    /\ reqs = <<>>

NextRounds ==
    \/ StartRoundOp(GameCode)
    \/ \E q \in PlayerIds : SubmitGuessOp(GameCode, "p2", q)
    \/ SubmitHeartOp(GameCode, "p2")
    \/ EndRoundOp(GameCode)
    \/ NextRoundOp(GameCode)

SpecRounds == InitRounds /\ [][NextRounds]_vars

----------------------------------------------------------------------------
(* SpecLobby: a created game, its players joining, rejoining and leaving,  *)
(* and the start.                                                          *)

\* The track lists a player can come with: none, or two tracks of which one
\* is also on the other list.
HostTracks == {<<>>, <<"a", "b">>}
JoinTracks == {<<>>, <<"b", "c">>}

\* Who joins: two accounts, and the first of them again under the fresh id
\* the join route gives every request.
Joiners ==
    {Player(x[1], x[2], t) :
        x \in {<<"p2", "s2">>, <<"p3", "s3">>, <<"p4", "s2">>}, t \in JoinTracks}

LobbyIds == {"p1", "p2", "p3", "p4"}

InitLobby ==
    /\ game \in {createGame(Player("p1", "s1", t), MaxRounds) : t \in HostTracks}
    /\ now = 1000
    /\ reqs = <<>>

NextLobby ==
    \/ \E code \in Codes, player \in Joiners : AddPlayerOp(code, player)
    \/ \E code \in Codes, p \in LobbyIds : RemovePlayerOp(code, p)
    \/ \E code \in Codes : StartGameOp(code)

SpecLobby == InitLobby /\ [][NextLobby]_vars

----------------------------------------------------------------------------
(* SpecPool: the start of a game over many rosters.  Three players come    *)
(* with track lists that overlap, fall short or are empty, and the game is *)
(* created for 1 to MaxPoolRounds rounds; startGame builds the pool.       *)

\* The largest round count a game is created with.
MaxPoolRounds == 5

\* Track lists of the three players: the host has none or three tracks; the
\* second player none, two tracks of which the first is the host's second,
\* or a single track; the third none or one of two single tracks.
HostLists == {<<>>, <<"x", "y", "z">>}
SecondLists == {<<>>, <<"y", "w">>, <<"v">>}
ThirdLists == {<<>>, <<"w">>, <<"v">>}

PoolLobbies ==
    {addPlayerToGame(
        addPlayerToGame(createGame(Player("p1", "s1", t1), n),
                        Player("p2", "s2", t2)).game,
        Player("p3", "s3", t3)).game :
        t1 \in HostLists, t2 \in SecondLists, t3 \in ThirdLists, n \in 1..MaxPoolRounds}

InitPool ==
    /\ game \in PoolLobbies
    /\ now = 1000
    /\ reqs = <<>>

NextPool ==
    \/ \E code \in Codes : StartGameOp(code)
    \/ \E code \in Codes : StartRoundOp(code)

SpecPool == InitPool /\ [][NextPool]_vars

----------------------------------------------------------------------------
(* The routes: what a request does to the stored game, what it publishes   *)
(* on the game's channel and what it answers.  A payload is kept as the    *)
(* rounds and the song pool it carries, each song with the ownerId field   *)
(* as the route fills it.                                                  *)

Payload(event, rounds, songPool) ==
    [event |-> event, rounds |-> rounds, songPool |-> songPool]

\* round: {..., song: {track, ownerId: null, ownerName: null}}
Hidden(round) ==
    [number |-> round.number, song |-> [track |-> round.song.track, ownerId |-> "null"]]

\* round: {..., song: {track, ownerId, ownerName}}
Revealed(round) == [number |-> round.number, song |-> round.song]

GAME_STARTED == Payload("game-started", <<>>, <<>>)
ROUND_START(round) == Payload("round-start", <<Hidden(round)>>, <<>>)
PLAYER_GUESSED == Payload("player-guessed", <<>>, <<>>)
ROUND_END(round) == Payload("round-end", <<Revealed(round)>>, <<>>)
TIMER_EXPIRED == Payload("timer-expired", <<>>, <<>>)
GAME_OVER == Payload("game-over", <<>>, <<>>)

\* A JSON answer that carries no part of the game's rounds or pool.
PlainBody == Payload("response", <<>>, <<>>)

\* A JSON answer that carries the GameState object.
GameStateBody(g) ==
    Payload("response", [i \in DOMAIN g.rounds |-> Revealed(g.rounds[i])], g.songPool)

\* triggerGameEvent throws when pusher.trigger fails; the route's catch then
\* answers 500.  A request is served with its n-th triggerGameEvent call
\* failing, or (0) with none failing; no route makes more than two calls.
Failures == 0..2

Answer(g, wrote, status, events, body) ==
    [game |-> g, wrote |-> wrote, res |-> [ok |-> status = 200, status |-> status],
     events |-> events, body |-> body]

\* GET of a game: code, status, hostId, players, currentRound, totalRounds
\* and scores.
getRoute(g) ==
    IF g.status = "missing" THEN Answer(g, FALSE, 404, <<>>, PlainBody)
    ELSE Answer(g, FALSE, 200, <<>>, PlainBody)

----------------------------------------------------------------------------
(* The guess, timer-expired and next-round routes, each request served     *)
(* whole.                                                                  *)

\* POST guess.
guessRoute(g, playerId, guessedPlayerId, t, failAt) ==
    IF g.status = "missing" THEN Answer(g, FALSE, 404, <<>>, PlainBody)
    ELSE IF g.status # "playing" THEN Answer(g, FALSE, 400, <<>>, PlainBody)
    ELSE LET result == submitGuess(g, playerId, guessedPlayerId, t)
         IN  IF ~result.res.ok THEN Answer(g, FALSE, 500, <<>>, PlainBody)
             ELSE IF failAt = 1 THEN Answer(result.game, TRUE, 500, <<>>, PlainBody)
             ELSE IF ~result.res.allGuessed
             THEN Answer(result.game, TRUE, 200, <<PLAYER_GUESSED>>, PlainBody)
             ELSE LET endResult == endRound(result.game, t)
                  IN  IF ~endResult.res.ok
                      THEN Answer(result.game, TRUE, 200, <<PLAYER_GUESSED>>, PlainBody)
                      ELSE IF failAt = 2
                      THEN Answer(endResult.game, TRUE, 500, <<PLAYER_GUESSED>>,
                                  PlainBody)
                      ELSE Answer(endResult.game, TRUE, 200,
                                  <<PLAYER_GUESSED, ROUND_END(CurrentRound(endResult.game))>>,
                                  PlainBody)

Skipped(g) ==
    [game |-> g, wrote |-> FALSE, res |-> [ok |-> TRUE, status |-> 200],
     events |-> <<>>, body |-> PlainBody]

\* Mutant: the timer-expired route ends the round whatever its status.
timerExpiredRoute_NoStatusCheck(g, roundNumber, t, failAt) ==
    IF g.status = "missing" THEN Answer(g, FALSE, 404, <<>>, PlainBody)
    ELSE IF g.status # "playing" THEN Answer(g, FALSE, 400, <<>>, PlainBody)
    ELSE IF ~HasCurrentRound(g) \/ CurrentRound(g).number # roundNumber THEN Skipped(g)
    ELSE LET endResult == endRound(g, t)
         IN  IF ~endResult.res.ok THEN Answer(g, FALSE, 200, <<>>, PlainBody)
             ELSE IF failAt = 1 THEN Answer(endResult.game, TRUE, 500, <<>>, PlainBody)
             ELSE IF failAt = 2
             THEN Answer(endResult.game, TRUE, 500, <<TIMER_EXPIRED>>, PlainBody)
             ELSE Answer(endResult.game, TRUE, 200,
                         <<TIMER_EXPIRED, ROUND_END(CurrentRound(endResult.game))>>,
                         PlainBody)

\* POST timer-expired.
timerExpiredRoute(g, roundNumber, t, failAt) ==
    IF g.status = "missing" THEN Answer(g, FALSE, 404, <<>>, PlainBody)
    ELSE IF g.status # "playing" THEN Answer(g, FALSE, 400, <<>>, PlainBody)
    ELSE IF ~HasCurrentRound(g) \/ CurrentRound(g).number # roundNumber THEN Skipped(g)
    ELSE IF CurrentRound(g).status # "playing" THEN Skipped(g)
    ELSE LET endResult == endRound(g, t)
         IN  IF ~endResult.res.ok THEN Answer(g, FALSE, 200, <<>>, PlainBody)
             ELSE IF failAt = 1 THEN Answer(endResult.game, TRUE, 500, <<>>, PlainBody)
             ELSE IF failAt = 2
             THEN Answer(endResult.game, TRUE, 500, <<TIMER_EXPIRED>>, PlainBody)
             ELSE Answer(endResult.game, TRUE, 200,
                         <<TIMER_EXPIRED, ROUND_END(CurrentRound(endResult.game))>>,
                         PlainBody)

\* POST next-round.
nextRoundRoute(g, currentRoundNumber, t, failAt) ==
    IF g.status = "missing" THEN Answer(g, FALSE, 404, <<>>, PlainBody)
    ELSE IF g.status = "finished"
    THEN IF failAt = 1 THEN Answer(g, FALSE, 500, <<>>, PlainBody)
         ELSE Answer(g, FALSE, 200, <<GAME_OVER>>, PlainBody)
    ELSE IF g.status # "playing" THEN Answer(g, FALSE, 400, <<>>, PlainBody)
    ELSE IF g.currentRound + 1 > currentRoundNumber
    THEN IF HasCurrentRound(g) /\ failAt # 1
         THEN Answer(g, FALSE, 200, <<ROUND_START(CurrentRound(g))>>, PlainBody)
         ELSE Answer(g, FALSE, IF HasCurrentRound(g) THEN 500 ELSE 200, <<>>, PlainBody)
    ELSE IF g.currentRound + 1 >= g.totalRounds
    THEN LET finishedGame == nextRound(g).game
         IN  IF failAt = 1 THEN Answer(finishedGame, TRUE, 500, <<>>, PlainBody)
             ELSE Answer(finishedGame, TRUE, 200, <<GAME_OVER>>, PlainBody)
    ELSE LET newRound == nextRound(g)
             startedRound == startRound(newRound.game, t)
         IN  IF ~newRound.res.ok
             THEN Answer(newRound.game, newRound.wrote, 500, <<>>, PlainBody)
             ELSE IF ~startedRound.res.ok
             THEN Answer(newRound.game, TRUE, 500, <<>>, PlainBody)
             ELSE IF failAt = 1 THEN Answer(startedRound.game, TRUE, 500, <<>>, PlainBody)
             ELSE Answer(startedRound.game, TRUE, 200,
                         <<ROUND_START(CurrentRound(startedRound.game))>>, PlainBody)

----------------------------------------------------------------------------
(* SpecLife: a game from its creation to its end.  The lobby fills and     *)
(* empties, start requests come from the host and from the other player,   *)
(* and every engine function may be called in every status of the game.    *)

StartRejected(g, status) ==
    [game |-> g, wrote |-> FALSE, res |-> [ok |-> FALSE, status |-> status],
     events |-> <<>>, body |-> PlainBody]

\* startGame and startRound have run; the route publishes game-started and
\* round-start and answers {success: true, gameState}.
StartAnswer(started, round, failAt) ==
    IF failAt = 1
    THEN [game |-> started.game, wrote |-> TRUE,
          res |-> [ok |-> FALSE, status |-> 500], events |-> <<>>, body |-> PlainBody]
    ELSE IF failAt = 2
    THEN [game |-> round.game, wrote |-> TRUE,
          res |-> [ok |-> FALSE, status |-> 500],
          events |-> <<GAME_STARTED>>, body |-> PlainBody]
    ELSE [game |-> round.game, wrote |-> TRUE,
          res |-> [ok |-> TRUE, status |-> 200],
          events |-> <<GAME_STARTED, ROUND_START(CurrentRound(round.game))>>,
          body |-> GameStateBody(started.game)]

\* Mutant: the start route does not compare the request's hostId with the
\* game's.
startRoute_NoHostCheck(g, hostId, songPool, t, awaited, failAt) ==
    IF g.status = "missing" THEN StartRejected(g, 404)
    ELSE IF Cardinality({i \in DOMAIN g.players : g.players[i].isConnected}) < 2
    THEN StartRejected(g, 400)
    ELSE LET started == startGame(g, songPool)
         IN  IF ~started.res.ok THEN StartRejected(g, 500)
             ELSE StartAnswer(started, startRound(started.game, t), failAt)

\* POST of the start route.  The route calls getGame (an async function)
\* without await.  awaited = FALSE is the route as it runs then: `game` is
\* the pending promise, which is not null and whose hostId is undefined, so
\* the comparison with the request's hostId fails for every request.
\* awaited = TRUE is the route with `game` the stored game, as the guess,
\* timer-expired and next-round routes read it.  songPool is what
\* buildSongPool returns inside startGame.  The game-started event is
\* published between startGame and startRound.
startRoute(g, hostId, songPool, t, awaited, failAt) ==
    IF ~awaited THEN StartRejected(g, 403)
    ELSE IF g.status = "missing" THEN StartRejected(g, 404)
    ELSE IF g.hostId # hostId THEN StartRejected(g, 403)
    ELSE IF Cardinality({i \in DOMAIN g.players : g.players[i].isConnected}) < 2
    THEN StartRejected(g, 400)
    ELSE LET started == startGame(g, songPool)
         IN  IF ~started.res.ok THEN StartRejected(g, 500)
             ELSE StartAnswer(started, startRound(started.game, t), failAt)

\* startGame calls buildSongPool once it has found the game in lobby; a
\* request that does not get that far draws no pool.
StartReq(code, hostId) ==
    /\ \E songPool \in IF getGameFromRedis(game, code).status = "lobby"
                        THEN buildSongPool(getGameFromRedis(game, code).players,
                                           getGameFromRedis(game, code).totalRounds)
                        ELSE {<<>>} :
         \E awaited \in BOOLEAN, failAt \in Failures :
            game' = Written(startRoute(getGameFromRedis(game, code), hostId,
                                       songPool, now, awaited, failAt))
    /\ UNCHANGED <<now, reqs>>

\* The second account joins with one track, and joins again under the fresh
\* id the join route gives every request.
LifeJoiners == {Player("p2", "s2", <<"c">>), Player("p4", "s2", <<"c">>)}

InitLife ==
    /\ game = createGame(Player("p1", "s1", <<"a", "b">>), MaxRounds)
    /\ now = 1000
    /\ reqs = <<>>

\* The host stays; the second player joins, leaves, guesses and hearts.
NextLife ==
    \/ \E code \in Codes, player \in LifeJoiners : AddPlayerOp(code, player)
    \/ \E code \in Codes : RemovePlayerOp(code, "p2")
    \/ \E code \in Codes, hostId \in PlayerIds : StartReq(code, hostId)
    \/ StartGameOp(GameCode)
    \/ StartRoundOp(GameCode)
    \/ \E q \in PlayerIds : SubmitGuessOp(GameCode, "p2", q)
    \/ SubmitHeartOp(GameCode, "p2")
    \/ EndRoundOp(GameCode)
    \/ NextRoundOp(GameCode)

SpecLife == InitLife /\ [][NextLife]_vars

----------------------------------------------------------------------------
(* SpecRace: the guess, timer-expired and next-round routes serving        *)
(* overlapping requests.  Every await on the store is a step of its own:   *)
(* a request reads the game, and writes what it computed from that read    *)
(* in a later step, whatever the store holds by then.                      *)

Idle == [pc |-> "idle", loc |-> NoGame, player |-> "", guessed |-> "", last |-> FALSE]

Slots == 1..MaxReqs

RaceLobby ==
    addPlayerToGame(createGame(Player("p1", "s1", <<"a">>), MaxRounds),
                    Player("p2", "s2", <<"b">>)).game

\* The start route has started the game and its first round; of the pools
\* the shuffle can give, the one that opens with the host's song.
InitRace ==
    /\ game \in {startRound(g, 1000).game :
                    g \in {h \in StartedGames(RaceLobby) : h.songPool[1].ownerId = "p1"}}
    /\ now = 1000
    /\ reqs = [i \in Slots |-> Idle]

\* A request that arrives is served in the first free slot (the slots are
\* interchangeable).
Free(i) == reqs[i].pc = "idle" /\ \A j \in Slots : j < i => reqs[j].pc # "idle"

Goto(i, pc, loc) == reqs' = [reqs EXCEPT ![i].pc = pc, ![i].loc = loc]
Done(i) == reqs' = [reqs EXCEPT ![i] = Idle]

\* POST guess: the route's own getGame and its status checks.
GuessGet(i, playerId, guessedPlayerId) ==
    /\ reqs[i].pc = "idle"
    /\ game.status = "playing"
    /\ reqs' = [reqs EXCEPT ![i] = [pc |-> "submitGuess_read", loc |-> NoGame,
                                    player |-> playerId, guessed |-> guessedPlayerId,
                                    last |-> FALSE]]
    /\ UNCHANGED <<game, now>>

\* submitGuess: getGameFromRedis and the checks on what it read.
SubmitGuessRead(i) ==
    /\ reqs[i].pc = "submitGuess_read"
    /\ IF submitGuess(game, reqs[i].player, reqs[i].guessed, now).wrote
       THEN Goto(i, "submitGuess_write", game)
       ELSE Done(i)
    /\ UNCHANGED <<game, now>>

\* submitGuess: setGameInRedis; then the route ends the round when allGuessed.
SubmitGuessWrite(i) ==
    /\ reqs[i].pc = "submitGuess_write"
    /\ game' = submitGuess(reqs[i].loc, reqs[i].player, reqs[i].guessed, now).game
    /\ IF submitGuess(reqs[i].loc, reqs[i].player, reqs[i].guessed, now).res.allGuessed
       THEN Goto(i, "endRound_read", NoGame)
       ELSE Done(i)
    /\ UNCHANGED now

\* POST timer-expired: getGame and the checks that roundNumber is the
\* current round and that the round is still playing.
TimerGet(i, roundNumber) ==
    /\ reqs[i].pc = "idle"
    /\ game.status = "playing"
    /\ HasCurrentRound(game)
    /\ CurrentRound(game).number = roundNumber
    /\ CurrentRound(game).status = "playing"
    /\ Goto(i, "endRound_read", NoGame)
    /\ UNCHANGED <<game, now>>

\* endRound: getGameFromRedis and the checks on what it read.
EndRoundRead(i) ==
    /\ reqs[i].pc = "endRound_read"
    /\ \A p \in DOMAIN game.scores : game.scores[p] <= MaxScore
    /\ IF endRound(game, now).wrote
       THEN Goto(i, "endRound_write", game)
       ELSE Done(i)
    /\ UNCHANGED <<game, now>>

\* endRound: setGameInRedis.
EndRoundWrite(i) ==
    /\ reqs[i].pc = "endRound_write"
    /\ game' = endRound(reqs[i].loc, now).game
    /\ Done(i)
    /\ UNCHANGED now

\* POST next-round: getGame, the status checks and the idempotency check
\* (serverRoundNumber > currentRoundNumber answers alreadyAdvanced).  A
\* client sends it for the round whose round-end it has seen.
NextGet(i, currentRoundNumber) ==
    /\ reqs[i].pc = "idle"
    /\ currentRoundNumber \in DOMAIN game.rounds
    /\ game.rounds[currentRoundNumber].status = "complete"
    /\ game.status = "playing"
    /\ ~(game.currentRound + 1 > currentRoundNumber)
    /\ reqs' = [reqs EXCEPT ![i] = [pc |-> "nextRound_read", loc |-> NoGame,
                                    player |-> "", guessed |-> "",
                                    last |-> (game.currentRound + 1 >= game.totalRounds)]]
    /\ UNCHANGED <<game, now>>

\* nextRound: getGameFromRedis and the status check.
NextRoundRead(i) ==
    /\ reqs[i].pc = "nextRound_read"
    /\ IF nextRound(game).wrote
       THEN Goto(i, "nextRound_write", game)
       ELSE Done(i)
    /\ UNCHANGED <<game, now>>

\* nextRound: setGameInRedis; the route goes on to startRound when it took
\* the branch for a round that is not the last and got a round back.
NextRoundWrite(i) ==
    /\ reqs[i].pc = "nextRound_write"
    /\ game' = nextRound(reqs[i].loc).game
    /\ IF ~reqs[i].last /\ nextRound(reqs[i].loc).res.ok
       THEN Goto(i, "startRound_read", NoGame)
       ELSE Done(i)
    /\ UNCHANGED now

\* startRound: getGameFromRedis and the checks on what it read.
StartRoundRead(i) ==
    /\ reqs[i].pc = "startRound_read"
    /\ IF startRound(game, now).wrote
       THEN Goto(i, "startRound_write", game)
       ELSE Done(i)
    /\ UNCHANGED <<game, now>>

\* startRound: setGameInRedis.
StartRoundWrite(i) ==
    /\ reqs[i].pc = "startRound_write"
    /\ game' = startRound(reqs[i].loc, now).game
    /\ Done(i)
    /\ UNCHANGED now

NextRace ==
    \/ \E i \in Slots, p \in PlayerIds : Free(i) /\ GuessGet(i, p, "p1")
    \/ \E i \in Slots : SubmitGuessRead(i)
    \/ \E i \in Slots : SubmitGuessWrite(i)
    \/ \E i \in Slots, n \in 1..MaxRounds : Free(i) /\ TimerGet(i, n)
    \/ \E i \in Slots : EndRoundRead(i)
    \/ \E i \in Slots : EndRoundWrite(i)
    \/ \E i \in Slots, n \in 1..MaxRounds : Free(i) /\ NextGet(i, n)
    \/ \E i \in Slots : NextRoundRead(i)
    \/ \E i \in Slots : NextRoundWrite(i)
    \/ \E i \in Slots : StartRoundRead(i)
    \/ \E i \in Slots : StartRoundWrite(i)

SpecRace == InitRace /\ [][NextRace]_vars

----------------------------------------------------------------------------
(* SpecEndRace: the two triggers of a round's end.  Guess requests are     *)
(* served one after the other in slot 1 while timer-expired requests are   *)
(* served in slot 2; nobody asks for the next round.                       *)

NextEndRace ==
    \/ \E p \in PlayerIds : GuessGet(1, p, "p1")
    \/ SubmitGuessRead(1)
    \/ SubmitGuessWrite(1)
    \/ \E n \in 1..MaxRounds : TimerGet(2, n)
    \/ \E i \in {1, 2} : EndRoundRead(i)
    \/ \E i \in {1, 2} : EndRoundWrite(i)

SpecEndRace == InitRace /\ [][NextEndRace]_vars

----------------------------------------------------------------------------
(* SpecNextRace: clients that only let the timer run out and then ask for  *)
(* the next round; nobody guesses.                                         *)

NextNextRace ==
    \/ \E i \in Slots, n \in 1..MaxRounds : Free(i) /\ TimerGet(i, n)
    \/ \E i \in Slots : EndRoundRead(i)
    \/ \E i \in Slots : EndRoundWrite(i)
    \/ \E i \in Slots, n \in 1..MaxRounds : Free(i) /\ NextGet(i, n)
    \/ \E i \in Slots : NextRoundRead(i)
    \/ \E i \in Slots : NextRoundWrite(i)
    \/ \E i \in Slots : StartRoundRead(i)
    \/ \E i \in Slots : StartRoundWrite(i)

SpecNextRace == InitRace /\ [][NextNextRace]_vars

----------------------------------------------------------------------------
(* SpecLobbyRace: joins, departures and starts serving overlapping         *)
(* requests.  addPlayerToGame, removePlayerFromGame and startGame each     *)
(* read the whole game, change their copy and write the whole copy back;   *)
(* the read and the write are steps of their own.                          *)

NoPlayer == Player("", "", <<>>)

LobbyIdle == [pc |-> "idle", loc |-> NoGame, player |-> NoPlayer, pool |-> <<>>]

\* Who joins while the host waits in the lobby.
RaceJoiners == {Player("p2", "s2", <<"b">>), Player("p3", "s3", <<"c">>)}

InitLobbyRace ==
    /\ game = createGame(Player("p1", "s1", <<"a">>), MaxRounds)
    /\ now = 1000
    /\ reqs = [i \in Slots |-> LobbyIdle]

\* addPlayerToGame: getGameFromRedis and the status check.
AddPlayerRead(i, player) ==
    /\ reqs[i].pc = "idle"
    /\ addPlayerToGame(game, player).wrote
    /\ reqs' = [reqs EXCEPT ![i] = [pc |-> "addPlayer_write", loc |-> game,
                                    player |-> player, pool |-> <<>>]]
    /\ UNCHANGED <<game, now>>

\* addPlayerToGame: setGameInRedis with the copy that was read and changed.
AddPlayerWrite(i) ==
    /\ reqs[i].pc = "addPlayer_write"
    /\ game' = addPlayerToGame(reqs[i].loc, reqs[i].player).game
    /\ reqs' = [reqs EXCEPT ![i] = LobbyIdle]
    /\ UNCHANGED now

\* removePlayerFromGame: getGameFromRedis and the search of the roster.
RemovePlayerRead(i, playerId) ==
    /\ reqs[i].pc = "idle"
    /\ removePlayerFromGame(game, playerId).wrote
    /\ reqs' = [reqs EXCEPT ![i] = [pc |-> "removePlayer_write", loc |-> game,
                                    player |-> Player(playerId, "", <<>>),
                                    pool |-> <<>>]]
    /\ UNCHANGED <<game, now>>

\* removePlayerFromGame: setGameInRedis.
RemovePlayerWrite(i) ==
    /\ reqs[i].pc = "removePlayer_write"
    /\ game' = removePlayerFromGame(reqs[i].loc, reqs[i].player.id).game
    /\ reqs' = [reqs EXCEPT ![i] = LobbyIdle]
    /\ UNCHANGED now

\* startGame: getGameFromRedis, the status check and buildSongPool over the
\* roster that was read.
StartGameRead(i) ==
    /\ reqs[i].pc = "idle"
    /\ \E songPool \in buildSongPool(game.players, game.totalRounds) :
            /\ startGame(game, songPool).wrote
            /\ reqs' = [reqs EXCEPT ![i] = [pc |-> "startGame_write", loc |-> game,
                                            player |-> NoPlayer, pool |-> songPool]]
    /\ UNCHANGED <<game, now>>

\* startGame: setGameInRedis.
StartGameWrite(i) ==
    /\ reqs[i].pc = "startGame_write"
    /\ game' = startGame(reqs[i].loc, reqs[i].pool).game
    /\ reqs' = [reqs EXCEPT ![i] = LobbyIdle]
    /\ UNCHANGED now

NextLobbyRace ==
    \/ \E i \in Slots, player \in RaceJoiners : Free(i) /\ AddPlayerRead(i, player)
    \/ \E i \in Slots : AddPlayerWrite(i)
    \/ \E i \in Slots : Free(i) /\ RemovePlayerRead(i, "p2")
    \/ \E i \in Slots : RemovePlayerWrite(i)
    \/ \E i \in Slots : Free(i) /\ StartGameRead(i)
    \/ \E i \in Slots : StartGameWrite(i)

SpecLobbyRace == InitLobbyRace /\ [][NextLobbyRace]_vars

----------------------------------------------------------------------------
(* SpecRoutes: a game driven through its routes, one request at a time.    *)
(* Two players sit in the lobby with one track each; start, guess,         *)
(* timer-expired and next-round requests arrive in every order, with every *)
(* round number, and with Pusher failing or not.                           *)

GuessReq(code, playerId, guessedPlayerId) ==
    /\ \E failAt \in Failures :
            game' = Written(guessRoute(getGameFromRedis(game, code), playerId,
                                       guessedPlayerId, now, failAt))
    /\ UNCHANGED <<now, reqs>>

TimerReq(code, roundNumber) ==
    /\ \E failAt \in Failures :
            game' = Written(timerExpiredRoute(getGameFromRedis(game, code),
                                              roundNumber, now, failAt))
    /\ UNCHANGED <<now, reqs>>

NextReq(code, currentRoundNumber) ==
    /\ \E failAt \in Failures :
            game' = Written(nextRoundRoute(getGameFromRedis(game, code),
                                           currentRoundNumber, now, failAt))
    /\ UNCHANGED <<now, reqs>>

InitRoutes ==
    /\ game = RaceLobby
    /\ now = 1000
    /\ reqs = <<>>

NextRoutes ==
    \/ \E code \in Codes, hostId \in PlayerIds : StartReq(code, hostId)
    \/ \E code \in Codes, p \in PlayerIds, q \in PlayerIds : GuessReq(code, p, q)
    \/ \E code \in Codes, n \in 1..MaxRounds : TimerReq(code, n)
    \/ \E code \in Codes, n \in 1..MaxRounds : NextReq(code, n)
    \/ Tick(Instants)

SpecRoutes == InitRoutes /\ [][NextRoutes]_vars

----------------------------------------------------------------------------
(* Properties.  A property of an engine call is stated over every          *)
(* reachable state the call can be made in: what the call returns there,   *)
(* whether it writes, and the game it would write.                         *)

RoundIs(g, status) ==
    g.status = "playing" /\ HasCurrentRound(g) /\ CurrentRound(g).status = status

\* C1: endRound called on a round that an earlier endRound has already
\* completed is rejected (it returns no result and writes nothing) and every
\* player's cumulative score stays what the first call made it.
C1_EndRoundTwiceScoresOnce ==
    RoundIs(game, "complete") =>
        LET second == endRound(game, now)
        IN  /\ ~second.res.ok
            /\ ~second.wrote
            /\ second.game.scores = game.scores

\* C3: a guesser who already has a guess in the playing round keeps it: a
\* later submitGuess of theirs changes neither their entry in guesses nor
\* their entry in guessTimestamps.
C3_FirstGuessWins ==
    RoundIs(game, "playing") =>
        \A p \in DOMAIN CurrentRound(game).guesses, q \in PlayerIds :
            LET after == CurrentRound(submitGuess(game, p, q, now).game)
            IN  /\ after.guesses[p] = CurrentRound(game).guesses[p]
                /\ after.guessTimestamps[p] = CurrentRound(game).guessTimestamps[p]

C5_RoundScoresInRange ==
    (game.status = "playing" /\ HasCurrentRound(game)) =>
        LET roundScores == endRound(game, now).res.roundScores
        IN  \A p \in DOMAIN roundScores :
                roundScores[p] # 0 => (40 <= roundScores[p] /\ roundScores[p] <= 100)

\* C6: submitGuess returns allGuessed = TRUE exactly when, with this guess
\* recorded, every player whose isConnected is TRUE has an entry in the
\* round's guesses; disconnected players are not waited for.
C6_AllGuessedIffConnectedGuessed ==
    \A p \in PlayerIds, q \in PlayerIds :
        LET r == submitGuess(game, p, q, now)
        IN  r.res.ok =>
                (r.res.allGuessed <=>
                    \A i \in DOMAIN r.game.players :
                        r.game.players[i].isConnected =>
                            r.game.players[i].id \in DOMAIN CurrentRound(r.game).guesses)

\* The round is complete for the connected players although a disconnected
\* player has not guessed: p1 has guessed, p2 has left and has no guess.
C6_Witness ==
    /\ RoundIs(game, "playing")
    /\ DOMAIN CurrentRound(game).guesses = {"p1"}
    /\ \E i \in DOMAIN game.players :
            game.players[i].id = "p2" /\ ~game.players[i].isConnected
    /\ submitGuess(game, "p1", "p1", now).res.allGuessed

\* C9: nextRound on the last round (currentRound + 1 = totalRounds) returns
\* null, sets status to finished and appends no round; on a finished game
\* startRound, submitGuess, endRound and nextRound are all rejected and
\* write nothing.
C9_FinishIsFinal ==
    /\ (game.status = "playing" /\ game.currentRound + 1 = game.totalRounds) =>
            LET r == nextRound(game)
            IN  /\ ~r.res.ok
                /\ r.wrote
                /\ r.game.status = "finished"
                /\ r.game.rounds = game.rounds
    /\ game.status = "finished" =>
            /\ startRound(game, now) = Rejected(game)
            /\ endRound(game, now) = Rejected(game)
            /\ nextRound(game) = Rejected(game)
            /\ \A p \in PlayerIds, q \in PlayerIds :
                    submitGuess(game, p, q, now) = Rejected(game)

\* nextRound has finished the game after its last round was played.
C9_Witness ==
    /\ game.status = "finished"
    /\ Len(game.rounds) = game.totalRounds
    /\ game.rounds[Len(game.rounds)].status = "complete"

\* C10: startGame on a lobby game whose song pool comes back empty fails and
\* writes nothing: the persisted game (status lobby, songPool, rounds,
\* totalRounds, heartTotals) stays as it is.
C10_EmptyPoolStartFails ==
    game.status = "lobby" =>
        \A pool \in buildSongPool(game.players, game.totalRounds) :
            Len(pool) = 0 =>
                LET r == startGame(game, pool)
                IN  /\ ~r.res.ok
                    /\ ~r.wrote
                    /\ Written(r) = game

\* A lobby of two players without any track: the pool can only be empty.
C10_Witness ==
    /\ game.status = "lobby"
    /\ Len(game.players) = 2
    /\ \A i \in DOMAIN game.players : game.players[i].topTracks = <<>>
    /\ buildSongPool(game.players, game.totalRounds) = {<<>>}

\* C2: when a timer-expired request and the guess request that completes the
\* round race on that round, each player's cumulative score grows by the
\* round's award exactly once: in the first round it is the award of the
\* player's correct guess once the round is complete, and 0 otherwise.
C2_RaceScoresOnce ==
    (game.status = "playing" /\ game.currentRound = 0) =>
        LET round == CurrentRound(game)
        IN  \A p \in DOMAIN game.scores :
                game.scores[p] =
                    IF /\ round.status = "complete"
                       /\ p \in DOMAIN round.guesses
                       /\ round.guesses[p] = round.song.ownerId
                    THEN Max(40, 100 - ((round.guessTimestamps[p] - round.startedAt) \div 1000) * 2)
                    ELSE 0

\* C7: no round is skipped by next-round requests: every round that
\* currentRound has advanced past is complete (it was started and ended), so
\* two requests carrying the same currentRoundNumber advance currentRound by
\* one in total.
C7_NoRoundSkipped ==
    \A i \in DOMAIN game.rounds :
        i <= game.currentRound => game.rounds[i].status = "complete"

\* C8: once the persisted game has status finished, no later persisted state
\* of it has status playing or lobby.
C8_FinishedStaysFinished ==
    [][game.status = "finished" => game'.status = "finished"]_vars

\* C11: a successful startGame leaves the game with status playing,
\* currentRound 0, totalRounds = min(requested totalRounds, length of the
\* built pool), heartTotals 0 for every player, and rounds made of exactly
\* one round: number 1, status waiting, no guesses, no hearts, and the song
\* songPool[0].
C11_StartGameSuccess ==
    game.status = "lobby" =>
        \A pool \in buildSongPool(game.players, game.totalRounds) :
            LET r == startGame(game, pool)
                after == r.game
            IN  r.res.ok =>
                    /\ r.wrote
                    /\ after.status = "playing"
                    /\ after.currentRound = 0
                    /\ after.totalRounds =
                            (IF game.totalRounds <= Len(pool)
                             THEN game.totalRounds ELSE Len(pool))
                    /\ after.songPool = pool
                    /\ \A i \in DOMAIN after.players :
                            /\ after.players[i].id \in DOMAIN after.heartTotals
                            /\ after.heartTotals[after.players[i].id] = 0
                    /\ Len(after.rounds) = 1
                    /\ after.rounds[1].number = 1
                    /\ after.rounds[1].status = "waiting"
                    /\ DOMAIN after.rounds[1].guesses = {}
                    /\ after.rounds[1].hearts = <<>>
                    /\ after.rounds[1].song = pool[1]

\* startGame has started a game created for five rounds whose players have
\* four tracks between them: a game of four rounds waiting in round 1.
C11_Witness ==
    /\ game.status = "playing"
    /\ game.currentRound = 0
    /\ game.totalRounds = 4
    /\ Len(game.songPool) = 4
    /\ Len(game.rounds) = 1
    /\ game.rounds[1].status = "waiting"
    /\ game.rounds[1].song = game.songPool[1]
    /\ \A i \in DOMAIN game.players : game.heartTotals[game.players[i].id] = 0

C13_SelfHeartNoOp ==
    /\ \A i \in DOMAIN game.rounds :
            game.rounds[i].song.ownerId \notin Range(game.rounds[i].hearts)
    /\ (game.status = "playing" /\ HasCurrentRound(game)) =>
            LET r == submitHeart(game, CurrentRound(game).song.ownerId)
            IN  /\ ~r.wrote
                /\ r.game.rounds = game.rounds
                /\ r.game.heartTotals = game.heartTotals
                /\ Written(r) = game
                /\ RoundIs(game, "playing") => (r.res.ok /\ r.res.isOwnSong)

\* The round is playing and the other player has hearted it; the owner's
\* own heart is answered with success, isOwnSong and the count 1.
C13_Witness ==
    /\ RoundIs(game, "playing")
    /\ CurrentRound(game).song.ownerId = "p1"
    /\ CurrentRound(game).hearts = <<"p2">>
    /\ game.heartTotals["p1"] = 1
    /\ submitHeart(game, "p1").res =
            [ok |-> TRUE, visibleHeartCount |-> 1, isOwnSong |-> TRUE, error |-> ""]

\* C14: a non-owner can heart a round at most once: a second submitHeart by
\* the same player in the same round is rejected as already hearted and
\* changes neither hearts nor heartTotals; hearts never holds a player id
\* twice.
C14_HeartOncePerRound ==
    /\ \A i \in DOMAIN game.rounds :
            \A a, b \in DOMAIN game.rounds[i].hearts :
                game.rounds[i].hearts[a] = game.rounds[i].hearts[b] => a = b
    /\ RoundIs(game, "playing") =>
            \A p \in Range(CurrentRound(game).hearts) :
                LET r == submitHeart(game, p)
                IN  /\ ~r.res.ok
                    /\ r.res.error = "Already hearted this round"
                    /\ r.res.visibleHeartCount = Len(CurrentRound(game).hearts)
                    /\ ~r.wrote
                    /\ r.game.heartTotals = game.heartTotals
                    /\ r.game.rounds = game.rounds

\* p2 has hearted p1's playing round and tries again.
C14_Witness ==
    /\ RoundIs(game, "playing")
    /\ CurrentRound(game).song.ownerId = "p1"
    /\ CurrentRound(game).hearts = <<"p2">>
    /\ submitHeart(game, "p2").res.error = "Already hearted this round"
    /\ submitHeart(game, "p2").game.heartTotals["p1"] = 1

\* C15: an accepted submitHeart by a non-owner during a playing round
\* appends the player to hearts, increases heartTotals[song owner] by
\* exactly 1, leaves every other heartTotals entry and all scores unchanged,
\* and returns a visible heart count equal to the new size of hearts.
C15_HeartAccepted ==
    RoundIs(game, "playing") =>
        LET round == CurrentRound(game)
            owner == round.song.ownerId
        IN  \A p \in PlayerIds :
                (p # owner /\ p \notin Range(round.hearts)
                 /\ \E i \in DOMAIN game.players : game.players[i].id = p) =>
                    LET r == submitHeart(game, p)
                        after == CurrentRound(r.game)
                    IN  /\ r.res.ok
                        /\ ~r.res.isOwnSong
                        /\ r.wrote
                        /\ after.hearts = Append(round.hearts, p)
                        /\ r.game.heartTotals[owner] = GetOr(game.heartTotals, owner, 0) + 1
                        /\ \A q \in DOMAIN game.heartTotals \ {owner} :
                                r.game.heartTotals[q] = game.heartTotals[q]
                        /\ DOMAIN r.game.heartTotals = DOMAIN game.heartTotals \cup {owner}
                        /\ r.game.scores = game.scores
                        /\ r.res.visibleHeartCount = Len(after.hearts)
                        /\ r.game = [game EXCEPT
                                        !.rounds[game.currentRound + 1].hearts = after.hearts,
                                        !.heartTotals = r.game.heartTotals]

\* p2's heart on p1's playing round has been accepted: it is the round's
\* only heart and p1's total is 1 while p2's is 0.
C15_Witness ==
    /\ RoundIs(game, "playing")
    /\ CurrentRound(game).song.ownerId = "p1"
    /\ CurrentRound(game).hearts = <<"p2">>
    /\ game.heartTotals = [p1 |-> 1, p2 |-> 0]
    /\ \A p \in DOMAIN game.scores : game.scores[p] = 0

\* C16: for every roster with at least one track and every outcome of the
\* shuffles, buildSongPool returns exactly min(requestedRounds, number of
\* distinct track ids over all players' lists) songs, and every returned
\* song's ownerId is the id of a roster player.
C16_PoolCoverage ==
    game.status = "lobby" =>
        LET players == game.players
            tracks == UNION {Range(players[i].topTracks) : i \in DOMAIN players}
            expected == IF game.totalRounds <= Cardinality(tracks)
                        THEN game.totalRounds ELSE Cardinality(tracks)
        IN  tracks # {} =>
                \A pool \in buildSongPool(players, game.totalRounds) :
                    /\ Len(pool) = expected
                    /\ \A k \in DOMAIN pool :
                            \E i \in DOMAIN players : players[i].id = pool[k].ownerId

\* A game whose players hold five distinct tracks was created for three
\* rounds and has been started with a pool of three songs.
C16_Witness ==
    /\ game.status = "playing"
    /\ Cardinality(UNION {Range(game.players[i].topTracks) : i \in DOMAIN game.players}) = 5
    /\ game.totalRounds = 3
    /\ Len(game.songPool) = 3
    /\ \A k \in DOMAIN game.songPool : game.songPool[k].ownerId \in {"p1", "p2", "p3"}

\* C17: in the pool buildSongPool returns no track id appears more than
\* once, and a track on several players' lists is owned by the player who
\* ranks it at the lowest index, a tie going to the player earlier in the
\* roster; with the lists [x,y,z] and [y,w], y belongs to the second player.
C17_SingleOwnership ==
    game.status = "lobby" =>
        LET players == game.players
            Has(i, t) == t \in Range(players[i].topTracks)
            Rank(i, t) == CHOOSE r \in DOMAIN players[i].topTracks :
                            /\ players[i].topTracks[r] = t
                            /\ \A q \in 1..(r - 1) : players[i].topTracks[q] # t
        IN  \A pool \in buildSongPool(players, game.totalRounds) :
                /\ \A a, b \in DOMAIN pool : pool[a].track = pool[b].track => a = b
                /\ \A k \in DOMAIN pool :
                        \E o \in DOMAIN players :
                            /\ players[o].id = pool[k].ownerId
                            /\ Has(o, pool[k].track)
                            /\ \A j \in DOMAIN players :
                                    Has(j, pool[k].track) =>
                                        \/ Rank(o, pool[k].track) < Rank(j, pool[k].track)
                                        \/ /\ Rank(o, pool[k].track) = Rank(j, pool[k].track)
                                           /\ o <= j
                /\ (players[1].topTracks = <<"x", "y", "z">>
                    /\ players[2].topTracks = <<"y", "w">>) =>
                        \A k \in DOMAIN pool :
                            pool[k].track = "y" => pool[k].ownerId = players[2].id

\* The game of the players [x,y,z] and [y,w] has been started and its pool
\* holds y, owned by the second player.
C17_Witness ==
    /\ game.status = "playing"
    /\ game.players[1].topTracks = <<"x", "y", "z">>
    /\ game.players[2].topTracks = <<"y", "w">>
    /\ \E k \in DOMAIN game.songPool :
            game.songPool[k] = [track |-> "y", ownerId |-> "p2"]

\* C18: when every player has at least as many claimed tracks as the target
\* (floor(totalRounds / numPlayers), plus 1 for the first totalRounds mod
\* numPlayers players in roster order), the numbers of songs any two players
\* contribute to the pool buildSongPool returns differ by at most 1.
C18_ContributionFairness ==
    game.status = "lobby" =>
        LET players == game.players
            n == Len(players)
            claimed == songsByOwner(players)
            target(i) == (game.totalRounds \div n)
                            + (IF i <= game.totalRounds % n THEN 1 ELSE 0)
            count(pool, i) ==
                Cardinality({k \in DOMAIN pool : pool[k].ownerId = players[i].id})
        IN  (\A i \in DOMAIN players : Len(claimed[i]) >= target(i)) =>
                \A pool \in buildSongPool(players, game.totalRounds) :
                    \A i, j \in DOMAIN players :
                        count(pool, i) - count(pool, j) <= 1

\* A five-round game of players who claim two, two and one tracks has been
\* started: the pool holds two, two and one songs of theirs.
C18_Witness ==
    /\ game.status = "playing"
    /\ game.totalRounds = 5
    /\ Cardinality({k \in DOMAIN game.songPool : game.songPool[k].ownerId = "p1"}) = 2
    /\ Cardinality({k \in DOMAIN game.songPool : game.songPool[k].ownerId = "p2"}) = 2
    /\ Cardinality({k \in DOMAIN game.songPool : game.songPool[k].ownerId = "p3"}) = 1

\* C19: in every pool buildSongPool returns that has at least 3 songs and
\* at least 3 distinct owners, whatever the shuffles give, no owner holds 3
\* or more consecutive positions.
C19_NoStreakOfThree ==
    game.status = "lobby" =>
        \A pool \in buildSongPool(game.players, game.totalRounds) :
            (Len(pool) >= 3
             /\ Cardinality({pool[k].ownerId : k \in DOMAIN pool}) >= 3) =>
                \A k \in 1..(Len(pool) - 2) :
                    ~(pool[k].ownerId = pool[k + 1].ownerId
                      /\ pool[k + 1].ownerId = pool[k + 2].ownerId)

\* C20: startRound called while the current round is already playing is a
\* no-op: the round's startedAt (the scoring epoch) and status are after the
\* call what they were before, and the existing round is returned.
C20_StartRoundWhilePlayingNoOp ==
    RoundIs(game, "playing") =>
        LET r == startRound(game, now)
        IN  /\ r.res.ok
            /\ CurrentRound(r.game).status = "playing"
            /\ CurrentRound(r.game).startedAt = CurrentRound(game).startedAt
            /\ Written(r) = game

\* C21: submitGuess is rejected and leaves the persisted game unchanged
\* whenever the game is missing, the game's status is not playing, or the
\* current round's status is not playing (waiting or complete); and over
\* every step of the engine the guesses of a round change only while that
\* round is playing.
C21_GuessOnlyWhilePlaying ==
    /\ [](\A code \in Codes, p \in PlayerIds, q \in PlayerIds :
            LET g == getGameFromRedis(game, code)
                r == submitGuess(g, p, q, now)
            IN  (g.status = "missing" \/ g.status # "playing" \/ ~RoundIs(g, "playing")) =>
                    (~r.res.ok /\ ~r.wrote /\ Written(r) = game))
    /\ [][\A i \in DOMAIN game.rounds :
            (i \in DOMAIN game'.rounds
             /\ game'.rounds[i].guesses # game.rounds[i].guesses) =>
                (game.status = "playing" /\ game.rounds[i].status = "playing")]_vars

\* The round is complete with p2's guess in it, and a guess by p1 is
\* turned away.
C21_Witness ==
    /\ RoundIs(game, "complete")
    /\ DOMAIN CurrentRound(game).guesses = {"p2"}
    /\ submitGuess(game, "p1", "p1", now) = Rejected(game)

\* C22: submitHeart is rejected with success = false, and leaves hearts and
\* heartTotals unchanged, whenever the game is missing or not playing, the
\* current round's status is not playing, or the player id is not in the
\* roster.
C22_HeartRejections ==
    \A code \in Codes, p \in PlayerIds \cup {"stranger"} :
        LET g == getGameFromRedis(game, code)
            r == submitHeart(g, p)
        IN  (\/ g.status = "missing"
             \/ g.status # "playing"
             \/ ~RoundIs(g, "playing")
             \/ \A i \in DOMAIN g.players : g.players[i].id # p) =>
                /\ ~r.res.ok
                /\ ~r.wrote
                /\ r.game.rounds = g.rounds
                /\ r.game.heartTotals = g.heartTotals
                /\ Written(r) = game

\* The round is playing and holds p2's heart; the heart of somebody who is
\* not in the roster is answered 'Player not in game'.
C22_Witness ==
    /\ RoundIs(game, "playing")
    /\ CurrentRound(game).hearts = <<"p2">>
    /\ submitHeart(game, "stranger").res =
            [ok |-> FALSE, visibleHeartCount |-> 0, isOwnSong |-> FALSE,
             error |-> "Player not in game"]

\* C23: addPlayerToGame on a game that does not exist or whose status is
\* playing or finished returns failure and leaves the roster, scores and
\* heartTotals unchanged: nobody joins or rejoins once the game has started.
C23_JoinOnlyInLobby ==
    \A code \in Codes, player \in LifeJoiners \cup {Player("p3", "s3", <<"d">>)} :
        LET g == getGameFromRedis(game, code)
            r == addPlayerToGame(g, player)
        IN  g.status \in {"missing", "playing", "finished"} =>
                /\ ~r.res.ok
                /\ ~r.wrote
                /\ r.game.players = g.players
                /\ r.game.scores = g.scores
                /\ r.game.heartTotals = g.heartTotals
                /\ Written(r) = game

\* The game is finished, the second player had left it, and neither their
\* return nor a newcomer is let in.
C23_Witness ==
    /\ game.status = "finished"
    /\ Len(game.players) = 2
    /\ ~game.players[2].isConnected
    /\ addPlayerToGame(game, Player("p4", "s2", <<"c">>)) = Rejected(game)
    /\ addPlayerToGame(game, Player("p3", "s3", <<"d">>)) = Rejected(game)

\* C24: startGame is legal only from lobby: on a game whose status is
\* playing or finished it returns failure and leaves status, songPool,
\* totalRounds, currentRound, rounds and heartTotals unchanged.
C24_StartOnlyFromLobby ==
    game.status \in {"playing", "finished"} =>
        \A pool \in buildSongPool(game.players, game.totalRounds) \cup {game.songPool} :
            LET r == startGame(game, pool)
            IN  /\ ~r.res.ok
                /\ ~r.wrote
                /\ r.game.status = game.status
                /\ r.game.songPool = game.songPool
                /\ r.game.totalRounds = game.totalRounds
                /\ r.game.currentRound = game.currentRound
                /\ r.game.rounds = game.rounds
                /\ r.game.heartTotals = game.heartTotals
                /\ Written(r) = game

\* The game is in its second round with a heart given in the first, and a
\* further startGame is turned away.
C24_Witness ==
    /\ game.status = "playing"
    /\ game.currentRound = 1
    /\ Len(game.rounds) = 2
    /\ \E p \in DOMAIN game.heartTotals : game.heartTotals[p] = 1
    /\ startGame(game, game.songPool) = Rejected(game)

\* C25: removePlayerFromGame changes only the isConnected flag of the named
\* player, to false: the roster keeps its length and order, and scores,
\* heartTotals, rounds (guesses, timestamps, hearts) and the game's status
\* are unchanged, in any status of the game.
C25_RemoveOnlyDisconnects ==
    \A p \in PlayerIds \cup {"p4", "stranger"} :
        LET r == removePlayerFromGame(game, p)
        IN  /\ r.res.ok
            /\ Len(r.game.players) = Len(game.players)
            /\ \A i \in DOMAIN game.players :
                    r.game.players[i] =
                        IF game.players[i].id = p
                        THEN [game.players[i] EXCEPT !.isConnected = FALSE]
                        ELSE game.players[i]
            /\ r.game.scores = game.scores
            /\ r.game.heartTotals = game.heartTotals
            /\ r.game.rounds = game.rounds
            /\ r.game.status = game.status
            /\ r.game = [game EXCEPT !.players = r.game.players]

\* The game is finished with 100 points for the second player, who is
\* still connected and now leaves: the score stays, the flag goes.
C25_Witness ==
    /\ game.status = "finished"
    /\ Len(game.players) = 2
    /\ game.players[2].id = "p2"
    /\ game.players[2].isConnected
    /\ game.scores["p2"] = 100
    /\ LET after == removePlayerFromGame(game, "p2").game
       IN  /\ ~after.players[2].isConnected
           /\ after.scores["p2"] = 100
           /\ after.status = "finished"

\* C26: the failure results of startRound, submitGuess, endRound and
\* nextRound tell 'game not found', 'game not in the expected status' and
\* 'round not in the expected status' apart: for one operation the three
\* situations never give the same result value.
C26_FailuresDistinguishable ==
    LET missing == getGameFromRedis(game, OtherCode)
    IN  /\ game.status # "playing" =>
                /\ startRound(game, now).res # startRound(missing, now).res
                /\ submitGuess(game, "p2", "p1", now).res
                        # submitGuess(missing, "p2", "p1", now).res
                /\ endRound(game, now).res # endRound(missing, now).res
                /\ nextRound(game).res # nextRound(missing).res
        /\ (game.status = "playing" /\ HasCurrentRound(game)
            /\ CurrentRound(game).status # "playing") =>
                /\ submitGuess(game, "p2", "p1", now).res
                        # submitGuess(missing, "p2", "p1", now).res
                /\ submitGuess(game, "p2", "p1", now).res
                        # submitGuess([game EXCEPT !.status = "finished"],
                                      "p2", "p1", now).res

C28_RoundStatusForward ==
    [][\A i \in DOMAIN game.rounds :
            (i \in DOMAIN game'.rounds
             /\ game.rounds[i].status \in {"complete", "revealing"}) =>
                game'.rounds[i].status \notin {"playing", "waiting"}]_vars

\* C29: no player's persisted cumulative score decreases from one persisted
\* state of the game to the next, in every execution, those included where
\* one request's store write lands after another request's read, change
\* and write.
C29_ScoresNeverDecrease ==
    [][\A p \in DOMAIN game.scores :
            p \in DOMAIN game'.scores /\ game'.scores[p] >= game.scores[p]]_vars

\* C30: in every reachable state with game status playing, len(rounds) =
\* currentRound + 1 and every round i has the song songPool[i] and the
\* number i + 1 (counting from 0); once the status is finished no round is
\* appended.
C30_RoundsFollowPool ==
    /\ [](game.status = "playing" =>
            /\ Len(game.rounds) = game.currentRound + 1
            /\ \A i \in DOMAIN game.rounds :
                    /\ i \in DOMAIN game.songPool
                    /\ game.rounds[i].song = game.songPool[i]
                    /\ game.rounds[i].number = i)
    /\ [][game.status = "finished" => Len(game'.rounds) <= Len(game.rounds)]_vars

\* The game is in its second round, which holds the pool's second song.
C30_Witness ==
    /\ game.status = "playing"
    /\ game.currentRound = 1
    /\ Len(game.rounds) = 2
    /\ game.rounds[2].number = 2
    /\ game.rounds[2].song = game.songPool[2]
    /\ game.rounds[2].song # game.rounds[1].song

----------------------------------------------------------------------------
\* C31: in every persisted state of a game that has been started (status
\* playing or finished), currentRound < totalRounds.
C31_CurrentRoundBelowTotal ==
    game.status \in {"playing", "finished"} => game.currentRound < game.totalRounds

----------------------------------------------------------------------------
\* C32: the roster is append-only: a player persisted in players is in
\* players in every later persisted state, also when the store reads and
\* writes of joins and departures interleave.
C32_RosterAppendOnly ==
    [][\A i \in DOMAIN game.players :
          \E j \in DOMAIN game'.players : game'.players[j].id = game.players[i].id]_vars

\* C33: once startGame has succeeded, songPool and totalRounds are the same
\* in every later persisted state, also when a second start overlaps the
\* first: no step from a started game to a started game changes them.
C33_PoolFixedAfterStart ==
    [][(game.status \in {"playing", "finished"}
        /\ game'.status \in {"playing", "finished"}) =>
          /\ game'.songPool = game.songPool
          /\ game'.totalRounds = game.totalRounds]_vars

----------------------------------------------------------------------------
\* C34: endRound is rejected when the current round is waiting (created by
\* startGame or nextRound, never started): it writes nothing, so the
\* round's status and all scores stay as they are.
C34_EndRoundNeedsPlayingRound ==
    (game.status = "playing" /\ RoundIs(game, "waiting")) =>
        /\ ~endRound(game, now).res.ok
        /\ ~endRound(game, now).wrote
        /\ Written(endRound(game, now)) = game

----------------------------------------------------------------------------
\* C35: submitGuess with a guesser id that belongs to no player of the
\* roster is rejected and records nothing, so that after the round is
\* ended the keys of scores are still exactly the roster's player ids.
C35_StrangerGuessRejected ==
    \A q \in PlayerIds :
        LET guess == submitGuess(game, "stranger", q, now)
            ended == endRound(guess.game, now)
            Roster(g) == {g.players[i].id : i \in DOMAIN g.players}
        IN  RoundIs(game, "playing") =>
                /\ ~guess.res.ok
                /\ ~guess.wrote
                /\ DOMAIN ended.game.scores = Roster(ended.game)

----------------------------------------------------------------------------
\* C36: a timer-expired command whose roundNumber is not the number of the
\* current round, or that finds the current round not in status playing,
\* changes nothing in the persisted game and publishes no event (neither
\* timer-expired nor round-end).
C36_StaleTimerIsNoOp ==
    \A code \in Codes, roundNumber \in 0..(MaxRounds + 1), failAt \in Failures :
        LET g == getGameFromRedis(game, code)
            r == timerExpiredRoute(g, roundNumber, now, failAt)
        IN  (\/ g.status # "playing"
             \/ ~HasCurrentRound(g)
             \/ CurrentRound(g).number # roundNumber
             \/ CurrentRound(g).status # "playing") =>
                /\ ~r.wrote
                /\ Written(r) = game
                /\ r.events = <<>>

\* The second round is playing and the first is complete: a timer-expired
\* command for round 1 is skipped, where the one for round 2 ends the round
\* and publishes; once round 2 is complete its own command is skipped too.
C36_Witness ==
    /\ game.status = "playing"
    /\ game.currentRound = 1
    /\ RoundIs(game, "playing")
    /\ game.rounds[1].status = "complete"
    /\ timerExpiredRoute(game, 1, now, 0) = Skipped(game)
    /\ timerExpiredRoute(game, 2, now, 0).wrote
    /\ Len(timerExpiredRoute(game, 2, now, 0).events) = 2
    /\ timerExpiredRoute(timerExpiredRoute(game, 2, now, 0).game, 2, now, 0).events = <<>>

----------------------------------------------------------------------------
----------------------------------------------------------------------------
\* C38: when a guess makes allGuessed true, the guess request ends the
\* round (status complete, scores applied) whether or not the publishing of
\* the player-guessed event succeeds.
C38_GuessEndsRoundWithoutPusher ==
    \A p \in PlayerIds, q \in PlayerIds, failAt \in Failures :
        LET guess == submitGuess(game, p, q, now)
            r == guessRoute(game, p, q, now, failAt)
        IN  (RoundIs(game, "playing") /\ guess.res.ok /\ guess.res.allGuessed) =>
                /\ r.wrote
                /\ CurrentRound(r.game).status = "complete"
                /\ r.game = endRound(guess.game, now).game

----------------------------------------------------------------------------
\* C39: in every state reached by operations that do not overlap,
\* heartTotals[p] of each player p is the number of entries in hearts over
\* all rounds whose song is owned by p, and no step lowers a heart total.
C39_HeartTotalsCountHearts ==
    /\ [](\A i \in DOMAIN game.players :
            LET p == game.players[i].id
                Entries ==
                    UNION {{<<n, k>> : k \in DOMAIN game.rounds[n].hearts} :
                                n \in DOMAIN game.rounds}
                Received == Cardinality({x \in Entries :
                                            game.rounds[x[1]].song.ownerId = p})
                Total == IF p \in DOMAIN game.heartTotals THEN game.heartTotals[p] ELSE 0
            IN  Total = Received)
    /\ [][\A p \in DOMAIN game.heartTotals :
                /\ p \in DOMAIN game'.heartTotals
                /\ game'.heartTotals[p] >= game.heartTotals[p]]_vars

\* The game is in its second round, the second player's own song; the
\* host's song of the first round got the second player's heart, which is
\* the host's whole total.
C39_Witness ==
    /\ RoundIs(game, "playing")
    /\ Len(game.rounds) = 2
    /\ game.rounds[1].song.ownerId = "p1"
    /\ game.rounds[1].hearts = <<"p2">>
    /\ game.rounds[2].song.ownerId = "p2"
    /\ game.rounds[2].hearts = <<>>
    /\ game.heartTotals["p1"] = 1
    /\ game.heartTotals["p2"] = 0

----------------------------------------------------------------------------
(* SpecNextRaceFair: SpecNextRace with the clients' triggers and the       *)
(* server's steps fair: while the current round plays, a timer-expired     *)
(* request for it arrives; once it is complete, a next-round request for   *)
(* it arrives; and every request that has been taken in runs to its end.   *)

FairNextRace ==
    /\ WF_vars(\E i \in Slots, n \in 1..MaxRounds : Free(i) /\ TimerGet(i, n))
    /\ WF_vars(\E i \in Slots, n \in 1..MaxRounds : Free(i) /\ NextGet(i, n))
    /\ \A i \in Slots :
        /\ WF_vars(EndRoundRead(i))
        /\ WF_vars(EndRoundWrite(i))
        /\ WF_vars(NextRoundRead(i))
        /\ WF_vars(NextRoundWrite(i))
        /\ WF_vars(StartRoundRead(i))
        /\ WF_vars(StartRoundWrite(i))

SpecNextRaceFair == InitRace /\ [][NextNextRace]_vars /\ FairNextRace

\* C40: every started game eventually finishes when, for the round that is
\* current, a timer-expired command and then a next-round command with
\* that round's number keep being issued, and it finishes after exactly
\* totalRounds rounds have been completed.
C40_GameFinishesAfterAllRounds ==
    /\ (game.status = "playing") ~> (game.status = "finished")
    /\ [](game.status = "finished" =>
            /\ Len(game.rounds) = game.totalRounds
            /\ \A i \in DOMAIN game.rounds : game.rounds[i].status = "complete")

====
